---- MODULE Spec2Model ----
(***************************************************************************)
(* kge (kubectl get events helper): the command line front end of          *)
(* kge/cli/main.py as a state machine.                                     *)
(*                                                                         *)
(* The specifications share the module-level state of main.py:             *)
(*   Spec      - one run of the program: main() under the __main__ guard,  *)
(*               started in a fresh interpreter (empty caches);            *)
(*   SpecCache - a sequence of calls of get_pods, get_failed_replicasets,  *)
(*               list_pods_for_completion and the menu build of main()     *)
(*               made in ONE interpreter, the way tests/test_completion.py *)
(*               calls them (SystemExit is caught by the caller);          *)
(*   SpecNamespace   - repeated calls of get_current_namespace;            *)
(*   SpecFormat      - format_events on an event listing;                  *)
(*   SpecReplicaSets - a fresh get_failed_replicasets on a listing;        *)
(*   SpecTable       - display_events_table of kge/cli/gemini-attempt.py.  *)
(*                                                                         *)
(* Python values: None is the empty sequence << >> where a one-element     *)
(* sequence <<v>> is the value v (exit status, memoised namespace, the     *)
(* field selector).  A Python list is a sequence of strings.               *)
(***************************************************************************)
EXTENDS Integers, Sequences, FiniteSets, TLC

VARIABLES
    pod_cache,         \* main.py:15   namespace -> [value, time]
    replicaset_cache,  \* main.py:16   namespace -> [value, time]
    now,               \* the value time.time() returns
    ns_memo,           \* lru_cache of get_current_namespace: << >> or <<ns>>
    calls,             \* remote API calls issued so far, oldest first
    reads,             \* history: the cache reads made so far, oldest first
    out,               \* lines printed so far, oldest first
    exit_status,       \* << >> while running, <<code>> once the call/process ended
    pc,                \* position in main() (Spec) / "lib" (SpecCache)
    argv,              \* sys.argv[1:]
    args,              \* argparse namespace (main.py:227)
    namespace,         \* main(): local namespace
    pods,              \* main(): local pods (the menu)
    selection,         \* main(): local selection, << >> before the prompt returns
    entered,           \* get_user_selection(): what the last input() met
    ncalls,            \* SpecCache: library calls made so far
    nread,             \* Spec: lines read at the prompt so far
    listing,           \* the .items of the listing a function is studied on
    output             \* what that function built from them

vars == <<pod_cache, replicaset_cache, now, ns_memo, calls, reads, out,
          exit_status, pc, argv, args, namespace, pods, selection, entered,
          ncalls, nread, listing, output>>

----------------------------------------------------------------------------
(* Bounds of the model *)

MaxCalls == 2      \* library calls per interpreter (SpecCache)
MaxClock == 10     \* the clock stops advancing here
MaxInputs == 2     \* lines read at the selection prompt (Spec)
MaxEvents == 3     \* events of a listing handed to a formatter
MaxReplicaSets == 2  \* replica sets of a listing (SpecReplicaSets)

(* Program constant *)
CACHE_DURATION == 10

----------------------------------------------------------------------------
(* Generic helpers *)

RECURSIVE Join(_, _)
\* sep.join(xs)
Join(xs, sep) ==
    IF xs = << >> THEN ""
    ELSE IF Len(xs) = 1 THEN xs[1]
    ELSE xs[1] \o sep \o Join(Tail(xs), sep)

----------------------------------------------------------------------------
(* The cluster, as the remote API may answer *)

Namespaces == {"default", "prod"}
PodNames == {"a", "b"}

\* items of a V1PodList: metadata.name of each pod, in API order
PodListings == {<< >>, <<"a">>, <<"b", "a">>, <<"a", "a">>}

\* a V1ReplicaSet: metadata.name and status.conditions.
\*   st = "nostatus"  rs.status is None
\*   st = "noconds"   rs.status.conditions is None
\*   st = "conds"     rs.status.conditions = conds (condition types)
ReplicaSet(n, st, cs) == [name |-> n, st |-> st, conds |-> cs]
RsListings ==
    { << >>,
      <<ReplicaSet("r", "conds", <<"ReplicaFailure">>)>>,
      <<ReplicaSet("a", "conds", <<"Available", "ReplicaFailure">>),
        ReplicaSet("b", "noconds", << >>)>>,
      <<ReplicaSet("b", "nostatus", << >>),
        ReplicaSet("r", "conds", <<"ReplicaFailure", "ReplicaFailure">>),
        ReplicaSet("a", "conds", <<"ReplicaFailure">>)>>,
      <<ReplicaSet("r", "conds", <<"Available">>)>> }

\* How a remote call can end:
\*   "ok"      it returns a listing
\*   "api"     it raises kubernetes.client.ApiException
\*   "other"   it raises another Exception (a transport error of urllib3, ...)
\*   "config"  config.load_kube_config() raises inside get_k8s_client
Failures == {"api", "other", "config"}
PodAnswers == [kind : {"ok"}, items : PodListings] \cup [kind : Failures, items : {<< >>}]
RsAnswers == [kind : {"ok"}, items : RsListings] \cup [kind : Failures, items : {<< >>}]

\* A call as remembered in the history `calls`: the API method, its arguments
\* and how it ended ("ok", "api", "other").
Call(api, ns, sel, ended) ==
    [api |-> api, namespace |-> ns, field_selector |-> sel, ended |-> ended]

Line(msg, text) == [msg |-> msg, text |-> text]

----------------------------------------------------------------------------
(* get_k8s_client / get_k8s_apps_client, main.py:21-37.                     *)
(* Any exception of load_kube_config is reported and ends in sys.exit(1).   *)

get_k8s_client(answer) ==
    IF answer.kind = "config"
    THEN [out |-> <<Line("Error initializing Kubernetes client", "")>>,
          raised |-> "SystemExit", code |-> <<1>>]
    ELSE [out |-> << >>, raised |-> "", code |-> << >>]

get_k8s_apps_client(answer) ==
    IF answer.kind = "config"
    THEN [out |-> <<Line("Error initializing Kubernetes Apps client", "")>>,
          raised |-> "SystemExit", code |-> <<1>>]
    ELSE [out |-> << >>, raised |-> "", code |-> << >>]

----------------------------------------------------------------------------
(* The TTL check shared by get_pods and get_failed_replicasets,             *)
(* main.py:52-55 and main.py:122-125.                                       *)

\* (as CacheFresh, with the boundary instant still counted as fresh)
CacheFreshInclusive(cache, ns, t) ==
    /\ ns \in DOMAIN cache
    /\ t - cache[ns].time <= CACHE_DURATION

CacheFresh(cache, ns, t) ==
    /\ ns \in DOMAIN cache
    /\ t - cache[ns].time < CACHE_DURATION

Store(cache, ns, value, t) ==
    [k \in DOMAIN cache \cup {ns} |->
        IF k = ns THEN [value |-> value, time |-> t] ELSE cache[k]]

\* Age of the entry a read finds: << >> when there is none.
Age(cache, ns, t) == IF ns \in DOMAIN cache THEN <<t - cache[ns].time>> ELSE << >>

\* A read of one of the two caches, as remembered in the history `reads`:
\*   age      age of the entry the read found (<< >>: no entry)
\*   answer   "hit", or how the remote call ended
\*   issued   number of remote list calls the read issued
\*   listed   <<names>> the remote listing yielded, << >> without a listing
\*   ok, ret  the read returned normally, and what it returned
Read(kind, ns, age, t, answer, issued, listed, ok, ret) ==
    [cache |-> kind, namespace |-> ns, age |-> age, time |-> t, answer |-> answer,
     issued |-> issued, listed |-> listed, ok |-> ok, ret |-> ret]

----------------------------------------------------------------------------
(* get_pods, main.py:47-68.                                                 *)
(* The result names what the call returns (ret), the cache afterwards, the  *)
(* remote calls issued, the lines printed and the exception that leaves the *)
(* function ("" when it returns).  The list returned is the very list       *)
(* object stored in the cache (lines 55 and 64-65): `aliased` says so.      *)

get_pods(cache, ns, t, answer) ==
    IF CacheFresh(cache, ns, t)
    THEN [ret |-> cache[ns].value, aliased |-> TRUE, cache |-> cache,
          calls |-> << >>, out |-> << >>, raised |-> "", code |-> << >>,
          read |-> Read("pod", ns, Age(cache, ns, t), t, "hit", 0, << >>, TRUE,
                       cache[ns].value)]
    ELSE IF answer.kind = "config"
    THEN [ret |-> << >>, aliased |-> FALSE, cache |-> cache,
          calls |-> << >>, out |-> get_k8s_client(answer).out,
          raised |-> "SystemExit", code |-> <<1>>,
          read |-> Read("pod", ns, Age(cache, ns, t), t, "config", 0, << >>, FALSE, << >>)]
    ELSE IF answer.kind = "ok"
    THEN [ret |-> answer.items, aliased |-> TRUE,
          cache |-> Store(cache, ns, answer.items, t),
          calls |-> <<Call("list_namespaced_pod", ns, << >>, answer.kind)>>,
          out |-> << >>, raised |-> "", code |-> << >>,
          read |-> Read("pod", ns, Age(cache, ns, t), t, "ok", 1, <<answer.items>>, TRUE,
                       answer.items)]
    ELSE IF answer.kind = "api"
    THEN [ret |-> << >>, aliased |-> FALSE, cache |-> cache,
          calls |-> <<Call("list_namespaced_pod", ns, << >>, answer.kind)>>,
          out |-> <<Line("Error fetching pods", "")>>,
          raised |-> "SystemExit", code |-> <<1>>,
          read |-> Read("pod", ns, Age(cache, ns, t), t, "api", 1, << >>, FALSE, << >>)]
    ELSE [ret |-> << >>, aliased |-> FALSE, cache |-> cache,
          calls |-> <<Call("list_namespaced_pod", ns, << >>, answer.kind)>>,
          out |-> << >>, raised |-> "Exception", code |-> << >>,
          read |-> Read("pod", ns, Age(cache, ns, t), t, "other", 1, << >>, FALSE, << >>)]

----------------------------------------------------------------------------
(* get_failed_replicasets, main.py:117-144.                                 *)

\* (as HasReplicaFailure, with the first condition looked at only)
HasReplicaFailure_FirstCondition(rs) ==
    /\ rs.st = "conds"
    /\ rs.conds # << >>
    /\ rs.conds[1] = "ReplicaFailure"

\* main.py:133-137: the replica set has a condition of type ReplicaFailure
HasReplicaFailure(rs) ==
    /\ rs.st = "conds"
    /\ rs.conds # << >>
    /\ \E i \in 1..Len(rs.conds) : rs.conds[i] = "ReplicaFailure"

RECURSIVE FailedRs(_)
\* main.py:131-137: names of the failed replica sets, in API order, once each
FailedRs(items) ==
    IF items = << >> THEN << >>
    ELSE (IF HasReplicaFailure(Head(items)) THEN <<Head(items).name>> ELSE << >>)
         \o FailedRs(Tail(items))

\* (as get_failed_replicasets, with the empty list stored when the call fails)
get_failed_replicasets_StoreOnFailure(cache, ns, t, answer) ==
    IF CacheFresh(cache, ns, t)
    THEN [ret |-> cache[ns].value, cache |-> cache,
          calls |-> << >>, out |-> << >>, raised |-> "", code |-> << >>,
          read |-> Read("rs", ns, Age(cache, ns, t), t, "hit", 0, << >>, TRUE,
                       cache[ns].value)]
    ELSE IF answer.kind = "config"
    THEN [ret |-> << >>, cache |-> cache,
          calls |-> << >>, out |-> get_k8s_apps_client(answer).out,
          raised |-> "SystemExit", code |-> <<1>>,
          read |-> Read("rs", ns, Age(cache, ns, t), t, "config", 0, << >>, FALSE, << >>)]
    ELSE IF answer.kind = "ok"
    THEN [ret |-> FailedRs(answer.items),
          cache |-> Store(cache, ns, FailedRs(answer.items), t),
          calls |-> <<Call("list_namespaced_replica_set", ns, << >>, answer.kind)>>,
          out |-> << >>, raised |-> "", code |-> << >>,
          read |-> Read("rs", ns, Age(cache, ns, t), t, "ok", 1, <<FailedRs(answer.items)>>,
                       TRUE, FailedRs(answer.items))]
    ELSE IF answer.kind = "api"
    THEN [ret |-> << >>, cache |-> Store(cache, ns, << >>, t),
          calls |-> <<Call("list_namespaced_replica_set", ns, << >>, answer.kind)>>,
          out |-> <<Line("Error fetching ReplicaSets", "")>>,
          raised |-> "", code |-> << >>,
          read |-> Read("rs", ns, Age(cache, ns, t), t, "api", 1, << >>, TRUE, << >>)]
    ELSE [ret |-> << >>, cache |-> cache,
          calls |-> <<Call("list_namespaced_replica_set", ns, << >>, answer.kind)>>,
          out |-> << >>, raised |-> "Exception", code |-> << >>,
          read |-> Read("rs", ns, Age(cache, ns, t), t, "other", 1, << >>, FALSE, << >>)]

get_failed_replicasets(cache, ns, t, answer) ==
    IF CacheFresh(cache, ns, t)
    THEN [ret |-> cache[ns].value, cache |-> cache,
          calls |-> << >>, out |-> << >>, raised |-> "", code |-> << >>,
          read |-> Read("rs", ns, Age(cache, ns, t), t, "hit", 0, << >>, TRUE,
                       cache[ns].value)]
    ELSE IF answer.kind = "config"
    THEN [ret |-> << >>, cache |-> cache,
          calls |-> << >>, out |-> get_k8s_apps_client(answer).out,
          raised |-> "SystemExit", code |-> <<1>>,
          read |-> Read("rs", ns, Age(cache, ns, t), t, "config", 0, << >>, FALSE, << >>)]
    ELSE IF answer.kind = "ok"
    THEN [ret |-> FailedRs(answer.items),
          cache |-> Store(cache, ns, FailedRs(answer.items), t),
          calls |-> <<Call("list_namespaced_replica_set", ns, << >>, answer.kind)>>,
          out |-> << >>, raised |-> "", code |-> << >>,
          read |-> Read("rs", ns, Age(cache, ns, t), t, "ok", 1, <<FailedRs(answer.items)>>,
                       TRUE, FailedRs(answer.items))]
    ELSE IF answer.kind = "api"
    THEN [ret |-> << >>, cache |-> cache,
          calls |-> <<Call("list_namespaced_replica_set", ns, << >>, answer.kind)>>,
          out |-> <<Line("Error fetching ReplicaSets", "")>>,
          raised |-> "", code |-> << >>,
          read |-> Read("rs", ns, Age(cache, ns, t), t, "api", 1, << >>, TRUE, << >>)]
    ELSE [ret |-> << >>, cache |-> cache,
          calls |-> <<Call("list_namespaced_replica_set", ns, << >>, answer.kind)>>,
          out |-> << >>, raised |-> "Exception", code |-> << >>,
          read |-> Read("rs", ns, Age(cache, ns, t), t, "other", 1, << >>, FALSE, << >>)]

----------------------------------------------------------------------------
(* get_current_namespace, main.py:39-45, under lru_cache(maxsize=1).        *)
(* ctx is what config.list_kube_config_contexts()[1]['context'] holds:      *)
(*   "error"    the lookup raises (no kube config, no active context)       *)
(*   "missing"  the context has no 'namespace' key (KeyError)               *)
(*   "none"     the namespace is None                                       *)
(*   otherwise  the namespace string (possibly "")                          *)

CtxAnswers == {"error", "missing", "none", ""} \cup Namespaces

\* (as ContextNamespace, with an empty namespace string returned as it is)
ContextNamespace_KeepEmpty(ctx) ==
    IF ctx \in {"error", "missing"} THEN "default"
    ELSE IF ctx = "none" THEN "default"
    ELSE ctx

ContextNamespace(ctx) ==
    IF ctx \in {"error", "missing"} THEN "default"      \* except Exception
    ELSE IF ctx \in {"none", ""} THEN "default"         \* ... or "default"
    ELSE ctx

\* (as get_current_namespace, without the lru_cache)
get_current_namespace_NoMemo(memo, ctx) ==
    [ret |-> ContextNamespace(ctx), memo |-> <<ContextNamespace(ctx)>>,
     calls |-> <<Call("list_kube_config_contexts", "", << >>, IF ctx = "error" THEN "other" ELSE "ok")>>]

get_current_namespace(memo, ctx) ==
    IF memo # << >>
    THEN [ret |-> memo[1], memo |-> memo, calls |-> << >>]
    ELSE [ret |-> ContextNamespace(ctx), memo |-> <<ContextNamespace(ctx)>>,
          calls |-> <<Call("list_kube_config_contexts", "", << >>, IF ctx = "error" THEN "other" ELSE "ok")>>]

----------------------------------------------------------------------------
(* pods = get_pods(namespace); failed_rs = get_failed_replicasets(namespace)*)
(* pods.extend(failed_rs): main.py:158-160 and main.py:309-311.             *)
(* extend() changes the list get_pods returned in place, and that list is   *)
(* the one held by pod_cache[namespace].                                    *)
(* Each of the two functions reads the clock itself (main.py:49 and 119):   *)
(* get_pods at t, get_failed_replicasets at t2 >= t, after the pod listing  *)
(* was waited for (main.py:60).  `time` is the last reading taken.          *)

Extend(cache, ns, aliased, extended) ==
    IF aliased /\ ns \in DOMAIN cache
    THEN [cache EXCEPT ![ns].value = extended]
    ELSE cache

FetchListing(podc, rsc, ns, t, t2, pa, ra) ==
    LET p == get_pods(podc, ns, t, pa)
        r == get_failed_replicasets(rsc, ns, t2, ra)
    IN  IF p.raised # ""
        THEN [pods |-> << >>, pod_cache |-> p.cache, replicaset_cache |-> rsc,
              calls |-> p.calls, out |-> p.out, reads |-> <<p.read>>,
              raised |-> p.raised, code |-> p.code, time |-> t]
        ELSE IF r.raised # ""
        THEN [pods |-> << >>, pod_cache |-> p.cache, replicaset_cache |-> r.cache,
              calls |-> p.calls \o r.calls, out |-> p.out \o r.out,
              reads |-> <<p.read, r.read>>,
              raised |-> r.raised, code |-> r.code, time |-> t2]
        ELSE [pods |-> p.ret \o r.ret,
              pod_cache |-> Extend(p.cache, ns, p.aliased, p.ret \o r.ret),
              replicaset_cache |-> r.cache,
              calls |-> p.calls \o r.calls, out |-> p.out \o r.out,
              reads |-> <<p.read, r.read>>,
              raised |-> "", code |-> << >>, time |-> t2]

----------------------------------------------------------------------------
(* list_pods_for_completion, main.py:146-162.                               *)

RECURSIVE ScanNamespace_ShortOnly(_, _)
\* (as ScanNamespace, with only -n recognised)
ScanNamespace_ShortOnly(sysargv, i) ==
    IF i > Len(sysargv) THEN << >>
    ELSE IF sysargv[i] = "-n" /\ i + 1 <= Len(sysargv)
    THEN <<sysargv[i + 1]>>
    ELSE ScanNamespace_ShortOnly(sysargv, i + 1)

RECURSIVE ScanNamespace(_, _)
\* main.py:149-153 over sys.argv from index i on: the argument after the
\* first -n / --namespace that has a successor; << >> is None
ScanNamespace(sysargv, i) ==
    IF i > Len(sysargv) THEN << >>
    ELSE IF sysargv[i] \in {"-n", "--namespace"} /\ i + 1 <= Len(sysargv)
    THEN <<sysargv[i + 1]>>
    ELSE ScanNamespace(sysargv, i + 1)

list_pods_for_completion(podc, rsc, memo, av, t, t2, ctx, pa, ra) ==
    LET scanned == ScanNamespace(<<"kge">> \o av, 1)
        cur == get_current_namespace(memo, ctx)
        ns == IF scanned = << >> THEN cur.ret ELSE scanned[1]
        nsmemo == IF scanned = << >> THEN cur.memo ELSE memo
        nscalls == IF scanned = << >> THEN cur.calls ELSE << >>
        f == FetchListing(podc, rsc, ns, t, t2, pa, ra)
    IN  [namespace |-> ns, pods |-> f.pods, memo |-> nsmemo, time |-> f.time,
         pod_cache |-> f.pod_cache, replicaset_cache |-> f.replicaset_cache,
         calls |-> nscalls \o f.calls, reads |-> f.reads,
         out |-> IF f.raised = "" THEN f.out \o <<Line("line", Join(f.pods, " "))>>
                 ELSE f.out,
         raised |-> IF f.raised = "" THEN "SystemExit" ELSE f.raised,
         code |-> IF f.raised = "" THEN <<0>> ELSE f.code]

----------------------------------------------------------------------------
(* Events: get_events_for_pod, get_all_events, format_events,               *)
(* main.py:70-115.                                                          *)

Event(ts, type, name) ==
    [last_timestamp |-> ts, type |-> type, name |-> name,
     reason |-> "Reason", message |-> "msg"]

\* items of a V1EventList, in API order; last_timestamp "None" is None
EventListings ==
    { << >>,
      <<Event("1", "Warning", "a")>>,
      <<Event("3", "Normal", "a"), Event("1", "Warning", "b"),
        Event("None", "Normal", "a"), Event("2", "Warning", "r")>> }

EventAnswers ==
    [kind : {"ok"}, items : EventListings] \cup [kind : Failures, items : {<< >>}]

\* main.py:107-114, one event (the colour codes of colorama are left out)
FormatEvent(e) ==
    e.last_timestamp \o " " \o e.type \o " " \o e.name \o " " \o e.reason
        \o ": " \o e.message

RECURSIVE FormatEventLines_SkipNormal(_)
\* (as FormatEventLines, with the events of type Normal left out)
FormatEventLines_SkipNormal(items) ==
    IF items = << >> THEN << >>
    ELSE (IF Head(items).type = "Normal" THEN << >> ELSE <<FormatEvent(Head(items))>>)
         \o FormatEventLines_SkipNormal(Tail(items))

RECURSIVE FormatEventLines(_)
FormatEventLines(items) ==
    IF items = << >> THEN << >>
    ELSE <<FormatEvent(Head(items))>> \o FormatEventLines(Tail(items))

\* main.py:99-115
format_events(items) ==
    IF items = << >> THEN "No events found"
    ELSE Join(FormatEventLines(items), "\n")

\* main.py:72-84 and 88-97 after the field selector is built: the client, the
\* call, the formatting and the handler of ApiException.  selector is
\* << >> for field_selector=None.
\* (as ListEvents, with a failed call issued a second time)
ListEvents_Retry(ns, selector, answer) ==
    IF answer.kind = "config"
    THEN [ret |-> "", calls |-> << >>, out |-> get_k8s_client(answer).out,
          raised |-> "SystemExit", code |-> <<1>>]
    ELSE IF answer.kind = "ok"
    THEN [ret |-> format_events(answer.items),
          calls |-> <<Call("list_namespaced_event", ns, selector, answer.kind)>>,
          out |-> << >>, raised |-> "", code |-> << >>]
    ELSE IF answer.kind = "api"
    THEN [ret |-> "", calls |-> <<Call("list_namespaced_event", ns, selector, answer.kind),
                                  Call("list_namespaced_event", ns, selector, answer.kind)>>,
          out |-> <<Line("Error fetching events", "")>>,
          raised |-> "SystemExit", code |-> <<1>>]
    ELSE [ret |-> "", calls |-> <<Call("list_namespaced_event", ns, selector, answer.kind),
                                  Call("list_namespaced_event", ns, selector, answer.kind)>>,
          out |-> << >>, raised |-> "Exception", code |-> << >>]

ListEvents(ns, selector, answer) ==
    IF answer.kind = "config"
    THEN [ret |-> "", calls |-> << >>, out |-> get_k8s_client(answer).out,
          raised |-> "SystemExit", code |-> <<1>>]
    ELSE IF answer.kind = "ok"
    THEN [ret |-> format_events(answer.items),
          calls |-> <<Call("list_namespaced_event", ns, selector, answer.kind)>>,
          out |-> << >>, raised |-> "", code |-> << >>]
    ELSE IF answer.kind = "api"
    THEN [ret |-> "", calls |-> <<Call("list_namespaced_event", ns, selector, answer.kind)>>,
          out |-> <<Line("Error fetching events", "")>>,
          raised |-> "SystemExit", code |-> <<1>>]
    ELSE [ret |-> "", calls |-> <<Call("list_namespaced_event", ns, selector, answer.kind)>>,
          out |-> << >>, raised |-> "Exception", code |-> << >>]

\* main.py:70-84
get_events_for_pod(ns, pod, non_normal, answer) ==
    ListEvents(ns,
               <<("involvedObject.name=" \o pod)
                    \o (IF non_normal THEN ",type!=Normal" ELSE "")>>,
               answer)

\* (as get_all_events, with an empty selector string sent in place of None)
get_all_events_EmptySelector(ns, non_normal, answer) ==
    ListEvents(ns, IF non_normal THEN <<"type!=Normal">> ELSE <<"">>, answer)

\* main.py:86-97
get_all_events(ns, non_normal, answer) ==
    ListEvents(ns, IF non_normal THEN <<"type!=Normal">> ELSE << >>, answer)

----------------------------------------------------------------------------
(* get_namespaces, main.py:195-203 *)

NamespaceListings == {<< >>, <<"default", "prod">>}
NamespaceAnswers ==
    [kind : {"ok"}, items : NamespaceListings] \cup [kind : Failures, items : {<< >>}]

get_namespaces(answer) ==
    IF answer.kind = "config"
    THEN [ret |-> << >>, calls |-> << >>, out |-> get_k8s_client(answer).out,
          raised |-> "SystemExit", code |-> <<1>>]
    ELSE IF answer.kind = "ok"
    THEN [ret |-> answer.items, calls |-> <<Call("list_namespace", "", << >>, answer.kind)>>,
          out |-> << >>, raised |-> "", code |-> << >>]
    ELSE IF answer.kind = "api"
    THEN [ret |-> << >>, calls |-> <<Call("list_namespace", "", << >>, answer.kind)>>,
          out |-> <<Line("Error fetching namespaces", "")>>,
          raised |-> "", code |-> << >>]
    ELSE [ret |-> << >>, calls |-> <<Call("list_namespace", "", << >>, answer.kind)>>,
          out |-> << >>, raised |-> "Exception", code |-> << >>]

\* main.py:205-209
list_namespaces_for_completion(answer) ==
    LET g == get_namespaces(answer)
    IN  IF g.raised # "" THEN g
        ELSE [ret |-> g.ret, calls |-> g.calls,
              out |-> g.out \o <<Line("line", Join(g.ret, " "))>>,
              raised |-> "SystemExit", code |-> <<0>>]

----------------------------------------------------------------------------
(* The command line: argparse as configured in main.py:212-227.             *)

\* arguments that do not start with "-"
ValueTokens == Namespaces \cup PodNames \cup {"zsh", ""}

\* --namespace=VALUE
NamespaceEq(t) ==
    IF t = "--namespace=prod" THEN <<"prod">>
    ELSE IF t = "--namespace=default" THEN <<"default">>
    ELSE << >>

RECURSIVE Parse(_, _, _)
\* parse_args over av from index i on; ok is FALSE where argparse ends the
\* process with a usage error
Parse(av, i, a) ==
    IF i > Len(av) THEN [ok |-> TRUE, args |-> a]
    ELSE IF av[i] \in {"-a", "--all"}
    THEN Parse(av, i + 1, [a EXCEPT !.all = TRUE])
    ELSE IF av[i] \in {"-e", "--exceptions-only"}
    THEN Parse(av, i + 1, [a EXCEPT !.exceptions_only = TRUE])
    ELSE IF av[i] \in {"-n", "--namespace"}
    THEN IF i + 1 <= Len(av) /\ av[i + 1] \in ValueTokens
         THEN Parse(av, i + 2, [a EXCEPT !.namespace = <<av[i + 1]>>])
         ELSE [ok |-> FALSE, args |-> a]
    ELSE IF NamespaceEq(av[i]) # << >>
    THEN Parse(av, i + 1, [a EXCEPT !.namespace = NamespaceEq(av[i])])
    ELSE IF av[i] = "--complete-pod"
    THEN Parse(av, i + 1, [a EXCEPT !.complete_pod = TRUE])
    ELSE IF av[i] = "--complete-ns"
    THEN Parse(av, i + 1, [a EXCEPT !.complete_ns = TRUE])
    ELSE IF av[i] = "--completion"
    THEN IF i + 1 <= Len(av) /\ av[i + 1] = "zsh"
         THEN Parse(av, i + 2, [a EXCEPT !.completion = <<"zsh">>])
         ELSE [ok |-> FALSE, args |-> a]
    ELSE IF av[i] \in ValueTokens /\ a.pod = << >>
    THEN Parse(av, i + 1, [a EXCEPT !.pod = <<av[i]>>])
    ELSE [ok |-> FALSE, args |-> a]

NoArgs == [pod |-> << >>, all |-> FALSE, namespace |-> << >>,
           exceptions_only |-> FALSE, complete_pod |-> FALSE,
           complete_ns |-> FALSE, completion |-> << >>]

parse_args(av) == Parse(av, 1, NoArgs)

\* Python truth of an optional string: None and "" are false
Truthy(opt) == opt # << >> /\ opt[1] # ""

----------------------------------------------------------------------------
(* get_user_selection, main.py:173-193: one line read at the prompt.        *)
(* A line is the sequence of its characters.                                *)

Digits == <<"0", "1", "2", "3", "4", "5", "6", "7", "8", "9">>
IsDigit(c) == \E d \in 1..Len(Digits) : Digits[d] = c
DigitValue(c) == (CHOOSE d \in 1..Len(Digits) : Digits[d] = c) - 1

\* str.lower() on the letters of the model
LowerChar(c) ==
    IF c = "Q" THEN "q" ELSE IF c = "A" THEN "a" ELSE IF c = "E" THEN "e"
    ELSE IF c = "X" THEN "x" ELSE c
Lower(line) == [i \in 1..Len(line) |-> LowerChar(line[i])]

RECURSIVE StripLeft(_)
StripLeft(line) ==
    IF line # << >> /\ Head(line) = " " THEN StripLeft(Tail(line)) ELSE line
RECURSIVE StripRight(_)
StripRight(line) ==
    IF line # << >> /\ line[Len(line)] = " "
    THEN StripRight(SubSeq(line, 1, Len(line) - 1)) ELSE line

RECURSIVE DigitsValue(_, _)
DigitsValue(ds, acc) ==
    IF ds = << >> THEN acc
    ELSE DigitsValue(Tail(ds), 10 * acc + DigitValue(Head(ds)))

\* int(line): <<n>>, or << >> where int() raises ValueError.  Surrounding
\* blanks are dropped, one sign is accepted, at least one digit is needed.
IntOf(line) ==
    LET s == StripRight(StripLeft(line))
        signed == s # << >> /\ Head(s) \in {"-", "+"}
        ds == IF signed THEN Tail(s) ELSE s
    IN  IF ds = << >> \/ \E i \in 1..Len(ds) : ~IsDigit(ds[i]) THEN << >>
        ELSE IF signed /\ Head(s) = "-" THEN <<0 - DigitsValue(ds, 0)>>
        ELSE <<DigitsValue(ds, 0)>>

Selection(kind, index) == [kind |-> kind, index |-> index]

\* What input() met: a line, Ctrl-C ("interrupt") or the end of standard
\* input ("eof"); "none" before the first prompt.
Entered(kind, line) == [kind |-> kind, line |-> line]

\* (as SelectionStep, with the menu taken to start at 0)
SelectionStepFromZero(line, max_value) ==
    IF Lower(line) = <<"q">>
    THEN [next |-> "quit", sel |-> << >>, out |-> <<Line("Exiting gracefully...", "")>>]
    ELSE IF line = <<"a">>
    THEN [next |-> "return", sel |-> <<Selection("a", 0)>>, out |-> << >>]
    ELSE IF line = <<"e">>
    THEN [next |-> "return", sel |-> <<Selection("e", 0)>>, out |-> << >>]
    ELSE IF IntOf(line) = << >>
    THEN [next |-> "again", sel |-> << >>,
          out |-> <<Line("Please enter a valid number, a, e or q to quit", "")>>]
    ELSE IF 0 <= IntOf(line)[1] /\ IntOf(line)[1] <= max_value
    THEN [next |-> "return", sel |-> <<Selection("index", IntOf(line)[1])>>, out |-> << >>]
    ELSE [next |-> "again", sel |-> << >>,
          out |-> <<Line("Invalid selection. Please enter a number between 1 and max or q to quit", "")>>]

\* (as SelectionStep, with q recognised in lower case only)
SelectionStepLowerCaseQ(line, max_value) ==
    IF line = <<"q">>
    THEN [next |-> "quit", sel |-> << >>, out |-> <<Line("Exiting gracefully...", "")>>]
    ELSE IF line = <<"a">>
    THEN [next |-> "return", sel |-> <<Selection("a", 0)>>, out |-> << >>]
    ELSE IF line = <<"e">>
    THEN [next |-> "return", sel |-> <<Selection("e", 0)>>, out |-> << >>]
    ELSE IF IntOf(line) = << >>
    THEN [next |-> "again", sel |-> << >>,
          out |-> <<Line("Please enter a valid number, a, e or q to quit", "")>>]
    ELSE IF 1 <= IntOf(line)[1] /\ IntOf(line)[1] <= max_value
    THEN [next |-> "return", sel |-> <<Selection("index", IntOf(line)[1])>>, out |-> << >>]
    ELSE [next |-> "again", sel |-> << >>,
          out |-> <<Line("Invalid selection. Please enter a number between 1 and max or q to quit", "")>>]

\* One pass of the loop body for the line read: what it prints, and whether
\* it exits ("quit"), returns ("return", with the selection) or loops
\* ("again").
SelectionStep(line, max_value) ==
    IF Lower(line) = <<"q">>
    THEN [next |-> "quit", sel |-> << >>, out |-> <<Line("Exiting gracefully...", "")>>]
    ELSE IF line = <<"a">>
    THEN [next |-> "return", sel |-> <<Selection("a", 0)>>, out |-> << >>]
    ELSE IF line = <<"e">>
    THEN [next |-> "return", sel |-> <<Selection("e", 0)>>, out |-> << >>]
    ELSE IF IntOf(line) = << >>
    THEN [next |-> "again", sel |-> << >>,
          out |-> <<Line("Please enter a valid number, a, e or q to quit", "")>>]
    ELSE IF 1 <= IntOf(line)[1] /\ IntOf(line)[1] <= max_value
    THEN [next |-> "return", sel |-> <<Selection("index", IntOf(line)[1])>>, out |-> << >>]
    ELSE [next |-> "again", sel |-> << >>,
          out |-> <<Line("Invalid selection. Please enter a number between 1 and max or q to quit", "")>>]

\* the lines typed at the prompt
InputLines ==
    { <<"q">>, <<"Q">>, <<"a">>, <<"A">>, <<"e">>, <<"E">>, << >>, <<"x">>,
      <<"0">>, <<"1">>, <<"2">>, <<"3">>, <<"4">>, <<"5">>, <<"6">>,
      <<"-", "1">>, <<"+", "2">>, <<" ", "1">>, <<"1", " ">>, <<"1", "0">>,
      <<"0", "2">>, <<"1", "x">>, <<"q", "q">>, <<" ", "q">>, <<"-">> }

----------------------------------------------------------------------------
(* The __main__ guard, main.py:345-353: how an exception leaving main()     *)
(* ends the process.  raised = "" is main() returning.                      *)

MainGuard(raised, code) ==
    IF raised = "SystemExit" THEN [out |-> << >>, code |-> code]
    ELSE IF raised = "" THEN [out |-> << >>, code |-> <<0>>]
    ELSE IF raised = "KeyboardInterrupt"
    THEN [out |-> <<Line("Exiting gracefully...", "")>>, code |-> <<0>>]
    ELSE [out |-> <<Line("Error", raised)>>, code |-> <<1>>]

----------------------------------------------------------------------------
(* State shared by the two specifications *)

EmptyCache == [k \in {} |-> [value |-> << >>, time |-> 0]]

\* A fresh interpreter: main.py:15-16 and an unused lru_cache.
FreshModule ==
    /\ pod_cache = EmptyCache
    /\ replicaset_cache = EmptyCache
    /\ ns_memo = << >>
    /\ calls = << >>
    /\ reads = << >>
    /\ out = << >>
    /\ exit_status = << >>
    /\ now = 0

----------------------------------------------------------------------------
(* SpecCache: calls made one after the other in one interpreter.            *)
(* calls, out and exit_status describe the latest call; reads is the        *)
(* history of all cache reads.                                              *)

\* What the remote API answers in this specification: two listings of each
\* kind (so that a refresh can be told from the value it replaces), a failed
\* call and a failed client construction.
LibFailures == {"api", "config"}
LibPodAnswers ==
    [kind : {"ok"}, items : {<<"a">>, <<"b", "a">>}] \cup [kind : LibFailures, items : {<< >>}]
LibRsAnswers ==
    [kind : {"ok"},
     items : {<<ReplicaSet("r", "conds", <<"ReplicaFailure">>)>>,
              <<ReplicaSet("a", "conds", <<"Available", "ReplicaFailure">>),
                ReplicaSet("b", "noconds", << >>)>>}]
    \cup [kind : LibFailures, items : {<< >>}]
LibCtxAnswers == {"none", "prod"}
NoAnswer == [kind |-> "api", items |-> << >>]

\* The answer is drawn only when the call is issued.
PodInputs(ns) == IF CacheFresh(pod_cache, ns, now) THEN {NoAnswer} ELSE LibPodAnswers
RsInputs(ns, pa, t2) ==
    IF CacheFresh(replicaset_cache, ns, t2) \/ get_pods(pod_cache, ns, now, pa).raised # ""
    THEN {NoAnswer} ELSE LibRsAnswers
CtxInputs(av) ==
    IF ns_memo # << >> \/ ScanNamespace(<<"kge">> \o av, 1) # << >>
    THEN {"none"} ELSE LibCtxAnswers
ArgvNamespace(av, ctx) ==
    list_pods_for_completion(pod_cache, replicaset_cache, ns_memo, av, now, now, ctx,
                             NoAnswer, NoAnswer).namespace

\* time passes half a cache lifetime at a time: the ages a read can meet are
\* 0, CACHE_DURATION / 2 (fresh) and CACHE_DURATION (stale)
TickStep == CACHE_DURATION \div 2

\* the clock readings get_failed_replicasets (main.py:119) can take after
\* get_pods read t (main.py:49) and waited for its listing (main.py:60): the
\* wait is of any length, so every instant of the clock from t on
SecondReadings(t) == {t2 \in t..MaxClock : (t2 - t) % TickStep = 0}

\* -n arguments a caller passes to the completion entry point
CompletionArgvs ==
    { <<"--complete-pod">>,
      <<"--complete-pod", "-n", "prod">> }

InitCache ==
    /\ FreshModule
    /\ listing = << >>
    /\ output = << >>
    /\ pc = "lib"
    /\ argv = << >>
    /\ args = NoArgs
    /\ namespace = ""
    /\ pods = << >>
    /\ selection = << >>
    /\ entered = Entered("none", << >>)
    /\ ncalls = 0
    /\ nread = 0

LibGetPods ==
    /\ pc = "lib"
    /\ ncalls < MaxCalls
    /\ \E ns \in Namespaces :
        \E pa \in PodInputs(ns) :
        \E g \in {get_pods(pod_cache, ns, now, pa)} :
             /\ pod_cache' = g.cache
             /\ calls' = g.calls
             /\ out' = g.out
             /\ reads' = Append(reads, g.read)
             /\ exit_status' = g.code
             /\ namespace' = ns
             /\ pods' = g.ret
    /\ ncalls' = ncalls + 1
    /\ UNCHANGED <<replicaset_cache, now, ns_memo, pc, argv, args, selection, entered, nread, listing, output>>

LibGetFailedReplicasets ==
    /\ pc = "lib"
    /\ ncalls < MaxCalls
    /\ \E ns \in Namespaces :
        \E ra \in (IF CacheFresh(replicaset_cache, ns, now) THEN {NoAnswer} ELSE LibRsAnswers) :
        \E g \in {get_failed_replicasets(replicaset_cache, ns, now, ra)} :
             /\ replicaset_cache' = g.cache
             /\ calls' = g.calls
             /\ out' = g.out
             /\ reads' = Append(reads, g.read)
             /\ exit_status' = g.code
             /\ namespace' = ns
             /\ pods' = g.ret
    /\ ncalls' = ncalls + 1
    /\ UNCHANGED <<pod_cache, now, ns_memo, pc, argv, args, selection, entered, nread, listing, output>>

LibListPodsForCompletion ==
    /\ pc = "lib"
    /\ ncalls < MaxCalls
    /\ \E av \in CompletionArgvs :
        \E ctx \in CtxInputs(av) :
        \E pa \in PodInputs(ArgvNamespace(av, ctx)) :
        \E t2 \in SecondReadings(now) :
        \E ra \in RsInputs(ArgvNamespace(av, ctx), pa, t2) :
        \E l \in {list_pods_for_completion(pod_cache, replicaset_cache, ns_memo,
                                           av, now, t2, ctx, pa, ra)} :
             /\ now' = l.time
             /\ pod_cache' = l.pod_cache
             /\ replicaset_cache' = l.replicaset_cache
             /\ ns_memo' = l.memo
             /\ calls' = l.calls
             /\ out' = l.out
             /\ reads' = reads \o l.reads
             /\ exit_status' = l.code
             /\ namespace' = l.namespace
             /\ pods' = l.pods
             /\ argv' = av
    /\ ncalls' = ncalls + 1
    /\ UNCHANGED <<pc, args, selection, entered, nread, listing, output>>

\* main.py:308-314, the menu build of main() for an already resolved namespace
LibBuildMenu ==
    /\ pc = "lib"
    /\ ncalls < MaxCalls
    /\ \E ns \in Namespaces :
        \E pa \in PodInputs(ns) :
        \E t2 \in SecondReadings(now) :
        \E ra \in RsInputs(ns, pa, t2) :
        \E f \in {FetchListing(pod_cache, replicaset_cache, ns, now, t2, pa, ra)} :
         LET empty == f.raised = "" /\ f.pods = << >>
         IN  /\ now' = f.time
             /\ pod_cache' = f.pod_cache
             /\ replicaset_cache' = f.replicaset_cache
             /\ calls' = f.calls
             /\ out' = <<Line("Fetching pods...", "")>> \o f.out
                       \o (IF empty THEN <<Line("No pods found in namespace", ns)>>
                           ELSE << >>)
             /\ reads' = reads \o f.reads
             /\ exit_status' = IF empty THEN <<1>> ELSE f.code
             /\ namespace' = ns
             /\ pods' = f.pods
    /\ ncalls' = ncalls + 1
    /\ UNCHANGED <<ns_memo, pc, argv, args, selection, entered, nread, listing, output>>

\* time passes between two calls
Tick ==
    /\ pc = "lib"
    /\ now + TickStep <= MaxClock
    /\ now' = now + TickStep
    /\ UNCHANGED <<pod_cache, replicaset_cache, ns_memo, calls, reads, out,
                   exit_status, pc, argv, args, namespace, pods, selection, entered,
                   ncalls, nread, listing, output>>

NextCache ==
    \/ LibGetFailedReplicasets
    \/ LibGetPods
    \/ LibListPodsForCompletion
    \/ LibBuildMenu
    \/ Tick

SpecCache == InitCache /\ [][NextCache]_vars

----------------------------------------------------------------------------
(* SpecNamespace: get_current_namespace called again and again in one       *)
(* interpreter while time passes and the ambient kube-context changes.      *)
(* Each call is remembered in `reads` as a read of the "namespace" cache    *)
(* (the lru_cache): answer is what the kube-context holds at the time of    *)
(* the call (one of CtxAnswers), issued the number of context lookups the   *)
(* call made, ret the string it returned.                                   *)

LibGetCurrentNamespace ==
    /\ pc = "lib"
    /\ ncalls < MaxCalls
    /\ \E ctx \in CtxAnswers :
       \E g \in {get_current_namespace(ns_memo, ctx)} :
         /\ ns_memo' = g.memo
         /\ calls' = g.calls
         /\ namespace' = g.ret
         /\ reads' = Append(reads, Read("namespace", "", << >>, now, ctx,
                                        Len(g.calls), << >>, TRUE, g.ret))
    /\ ncalls' = ncalls + 1
    /\ UNCHANGED <<pod_cache, replicaset_cache, now, out, exit_status, pc, argv,
                   args, pods, selection, entered, nread, listing, output>>

NextNamespace ==
    \/ LibGetCurrentNamespace
    \/ Tick

SpecNamespace == InitCache /\ [][NextNamespace]_vars

----------------------------------------------------------------------------
(* SpecFormat: format_events, main.py:99-115, called on an event listing.   *)
(* listing is events.items; output holds the local list `output` of the     *)
(* call (the text returned for an empty listing taken as its one entry)     *)
(* and the string returned.                                                 *)

\* the sequences over S of at most n elements
ListsOf(S, n) == {<< >>} \cup UNION {[1..k -> S] : k \in 1..n}

EventPool ==
    { Event("1", "Warning", "a"), Event("2", "Normal", "a"),
      Event("3", "Normal", "b"), Event("2", "Warning", "b"),
      Event("None", "Warning", "b") }

FormatInputs == ListsOf(EventPool, MaxEvents) \cup EventListings

InitFormat ==
    /\ FreshModule
    /\ pc = "lib"
    /\ argv = << >>
    /\ args = NoArgs
    /\ namespace = ""
    /\ pods = << >>
    /\ selection = << >>
    /\ entered = Entered("none", << >>)
    /\ ncalls = 0
    /\ nread = 0
    /\ listing \in FormatInputs
    /\ output = << >>

LibFormatEvents ==
    /\ pc = "lib"
    /\ ncalls = 0
    /\ output' = [lines |-> IF listing = << >> THEN <<format_events(listing)>>
                            ELSE FormatEventLines(listing),
                  ret |-> format_events(listing)]
    /\ ncalls' = ncalls + 1
    /\ UNCHANGED <<pod_cache, replicaset_cache, now, ns_memo, calls, reads, out,
                   exit_status, pc, argv, args, namespace, pods, selection,
                   entered, nread, listing>>

NextFormat == LibFormatEvents

SpecFormat == InitFormat /\ [][NextFormat]_vars

----------------------------------------------------------------------------
(* SpecReplicaSets: a fresh get_failed_replicasets (empty cache) on a       *)
(* listing of replica sets.  listing is replicasets.items, output the list  *)
(* returned.                                                                *)

ConditionLists ==
    { << >>, <<"Available">>, <<"ReplicaFailure">>,
      <<"ReplicaFailure", "ReplicaFailure">>, <<"Available", "ReplicaFailure">> }

ReplicaSetPool ==
    { ReplicaSet(n, "conds", cs) : n \in PodNames, cs \in ConditionLists }
    \cup { ReplicaSet(n, st, << >>) : n \in PodNames, st \in {"nostatus", "noconds"} }

ReplicaSetInputs == ListsOf(ReplicaSetPool, MaxReplicaSets) \cup RsListings

InitReplicaSets ==
    /\ FreshModule
    /\ pc = "lib"
    /\ argv = << >>
    /\ args = NoArgs
    /\ namespace = ""
    /\ pods = << >>
    /\ selection = << >>
    /\ entered = Entered("none", << >>)
    /\ ncalls = 0
    /\ nread = 0
    /\ listing \in ReplicaSetInputs
    /\ output = << >>

LibFreshFailedReplicasets ==
    /\ pc = "lib"
    /\ ncalls = 0
    /\ \E ns \in Namespaces :
       \E g \in {get_failed_replicasets(replicaset_cache, ns, now,
                                        [kind |-> "ok", items |-> listing])} :
         /\ replicaset_cache' = g.cache
         /\ calls' = g.calls
         /\ out' = g.out
         /\ reads' = Append(reads, g.read)
         /\ exit_status' = g.code
         /\ namespace' = ns
         /\ pods' = g.ret
         /\ output' = g.ret
    /\ ncalls' = ncalls + 1
    /\ UNCHANGED <<pod_cache, now, ns_memo, pc, argv, args, selection, entered,
                   nread, listing>>

NextReplicaSets == LibFreshFailedReplicasets

SpecReplicaSets == InitReplicaSets /\ [][NextReplicaSets]_vars

----------------------------------------------------------------------------
(* display_events_table, src/kge/cli/gemini-attempt.py:136-204.             *)
(* Instants are whole seconds; a last_timestamp is << >> (None) or <<t>>.   *)

KubernetesEvent(ts, name, type) ==
    [last_timestamp |-> ts, involved_object_name |-> name, type |-> type]

\* gemini-attempt.py:164, the sort key: x.last_timestamp or datetime.max.
\* A datetime is always true, and datetime.max is after every instant of the
\* model: <<0, t>> for the instant t, <<1, 0>> for datetime.max.
SortKey(e) ==
    IF e.last_timestamp = << >> THEN <<1, 0>> ELSE <<0, e.last_timestamp[1]>>

KeyLess(k, l) == k[1] < l[1] \/ (k[1] = l[1] /\ k[2] < l[2])

RECURSIVE InsertBeforeEqual(_, _)
\* (as InsertAfterEqual, with e put before the events of equal key)
InsertBeforeEqual(e, sorted_events) ==
    IF sorted_events = << >> THEN <<e>>
    ELSE IF KeyLess(SortKey(Head(sorted_events)), SortKey(e))
    THEN <<Head(sorted_events)>> \o InsertBeforeEqual(e, Tail(sorted_events))
    ELSE <<e>> \o sorted_events

RECURSIVE InsertAfterEqual(_, _)
\* e put into a sorted list behind every event whose key is not greater
InsertAfterEqual(e, sorted_events) ==
    IF sorted_events = << >> THEN <<e>>
    ELSE IF KeyLess(SortKey(e), SortKey(Head(sorted_events)))
    THEN <<e>> \o sorted_events
    ELSE <<Head(sorted_events)>> \o InsertAfterEqual(e, Tail(sorted_events))

RECURSIVE sorted(_)
\* gemini-attempt.py:162-165: sorted() is stable and ascending
sorted(events) ==
    IF events = << >> THEN << >>
    ELSE InsertAfterEqual(events[Len(events)],
                          sorted(SubSeq(events, 1, Len(events) - 1)))

\* (as RelativeTime, with the hour and the minute reached only when exceeded)
RelativeTime_Exceeding(elapsed) ==
    LET days == elapsed \div 86400
        seconds == elapsed % 86400
    IN  IF days > 0 THEN [amount |-> days, unit |-> "d"]
        ELSE IF seconds > 3600 THEN [amount |-> seconds \div 3600, unit |-> "h"]
        ELSE IF seconds > 60 THEN [amount |-> seconds \div 60, unit |-> "m"]
        ELSE [amount |-> seconds, unit |-> "s"]

\* gemini-attempt.py:180-191.  delta = now - event.last_timestamp is a
\* timedelta: delta.days is the floor of elapsed / 86400 (negative for an
\* instant after now) and delta.seconds the rest, in 0..86399.
RelativeTime(elapsed) ==
    LET days == elapsed \div 86400
        seconds == elapsed % 86400
    IN  IF days > 0 THEN [amount |-> days, unit |-> "d"]
        ELSE IF seconds >= 3600 THEN [amount |-> seconds \div 3600, unit |-> "h"]
        ELSE IF seconds >= 60 THEN [amount |-> seconds \div 60, unit |-> "m"]
        ELSE [amount |-> seconds, unit |-> "s"]

\* gemini-attempt.py:168-202, one row: the Time cell, with the number and the
\* unit it was built from (0 and "" where it shows no relative time), the
\* Type cell and the name of the Resource cell
Row(e, t, show_timestamps) ==
    IF e.last_timestamp = << >>
    THEN [timestamp |-> "unknown time", amount |-> 0, unit |-> "",
          type |-> e.type, resource |-> e.involved_object_name]
    ELSE IF show_timestamps
    THEN [timestamp |-> ToString(e.last_timestamp[1]), amount |-> 0, unit |-> "",
          type |-> e.type, resource |-> e.involved_object_name]
    ELSE LET r == RelativeTime(t - e.last_timestamp[1])
         IN  [timestamp |-> ToString(r.amount) \o r.unit \o " ago",
              amount |-> r.amount, unit |-> r.unit,
              type |-> e.type, resource |-> e.involved_object_name]

\* gemini-attempt.py:136-204: the sorted events and the rows of the table;
\* no table for an empty list
display_events_table(events, t, show_timestamps) ==
    IF events = << >>
    THEN [sorted_events |-> << >>, rows |-> << >>,
          out |-> <<Line("No events found.", "")>>]
    ELSE [sorted_events |-> sorted(events),
          rows |-> [i \in 1..Len(events) |-> Row(sorted(events)[i], t, show_timestamps)],
          out |-> <<Line("table", "")>>]

----------------------------------------------------------------------------
(* SpecTable: display_events_table called on a list of events at instant    *)
(* now = 0 (an instant -s is s seconds ago, an instant after 0 lies ahead). *)

\* events to sort: two instants and None, two names
SortPool ==
    { KubernetesEvent(ts, n, "Warning") :
        ts \in {<< >>, <<0 - 120>>, <<0 - 60>>}, n \in {"a", "b"} }

\* elapsed seconds around the edges of the units, and instants ahead of now
ElapsedSeconds ==
    { 0, 1, 59, 60, 61, 90, 119, 120, 3599, 3600, 3601, 7199, 7200,
      86399, 86400, 86401, 90000, 172799, 172800, 950400,
      0 - 1, 0 - 10, 0 - 60, 0 - 3600, 0 - 86400, 0 - 90000 }

TableInputs ==
    ListsOf(SortPool, MaxEvents)
    \cup { <<KubernetesEvent(<<0 - s>>, "a", "Normal")>> : s \in ElapsedSeconds }

InitTable ==
    /\ FreshModule
    /\ pc = "lib"
    /\ argv = << >>
    /\ args = NoArgs
    /\ namespace = ""
    /\ pods = << >>
    /\ selection = << >>
    /\ entered = Entered("none", << >>)
    /\ ncalls = 0
    /\ nread = 0
    /\ listing \in TableInputs
    /\ output = << >>

LibDisplayEventsTable ==
    /\ pc = "lib"
    /\ ncalls = 0
    /\ \E show_timestamps \in BOOLEAN :
       \E d \in {display_events_table(listing, now, show_timestamps)} :
         /\ output' = [sorted_events |-> d.sorted_events, rows |-> d.rows,
                       show_timestamps |-> show_timestamps]
         /\ out' = d.out
    /\ ncalls' = ncalls + 1
    /\ UNCHANGED <<pod_cache, replicaset_cache, now, ns_memo, calls, reads,
                   exit_status, pc, argv, args, namespace, pods, selection,
                   entered, nread, listing>>

NextTable == LibDisplayEventsTable

SpecTable == InitTable /\ [][NextTable]_vars

----------------------------------------------------------------------------
(* Spec: one run of the program.  main(), main.py:211-343, under the        *)
(* __main__ guard.  calls, out and reads cover the whole run.               *)
(*                                                                          *)
(* Every get_k8s_client() / get_k8s_apps_client() of the run loads the kube *)
(* config anew (main.py:24, 33): each of them can fail, whatever the check  *)
(* of main.py:229-234 found.                                                *)

ModeArgvs ==
    { << >>, <<"a">>, <<"-a">>, <<"b", "-a">>, <<"--complete-pod">>,
      <<"--complete-ns">>, <<"--completion", "zsh">>, <<"">> }
FlagArgvs == { << >>, <<"-e">> }
NamespaceArgvs ==
    { << >>, <<"-n", "prod">>, <<"--namespace=prod">>,
      <<"--namespace", "prod", "-n", "default">>, <<"-n", "">> }

\* the command lines of the model, all accepted by the parser
ArgvSet ==
    { av \in { m \o e \o n : m \in ModeArgvs, e \in FlagArgvs, n \in NamespaceArgvs } :
        parse_args(av).ok }

Answer(kind) == [kind |-> kind, items |-> << >>]

Init ==
    /\ FreshModule
    /\ listing = << >>
    /\ output = << >>
    /\ pc = "start"
    /\ argv \in ArgvSet
    /\ args = parse_args(argv).args
    /\ namespace = ""
    /\ pods = << >>
    /\ selection = << >>
    /\ entered = Entered("none", << >>)
    /\ ncalls = 0
    /\ nread = 0

\* the process ends: the exception (or return) leaving main() meets the guard
Exit(printed, raised, code) ==
    /\ out' = out \o printed \o MainGuard(raised, code).out
    /\ exit_status' = MainGuard(raised, code).code
    /\ pc' = "exited"

\* main.py:229-234
Connect ==
    /\ pc = "start"
    /\ \E k \in {"ok", "config"} :
       \E c \in {get_k8s_client(Answer(k))} :
         IF c.raised # ""
         THEN Exit(c.out, c.raised, c.code)
         ELSE /\ pc' = "connected"
              /\ UNCHANGED <<out, exit_status>>
    /\ UNCHANGED <<pod_cache, replicaset_cache, now, ns_memo, calls, reads,
                   argv, args, namespace, pods, selection, entered, ncalls, nread, listing, output>>

\* main.py:237-238
CompletePod ==
    /\ pc = "connected"
    /\ args.complete_pod
    /\ \E ctx \in CtxAnswers :
       \E pa \in PodAnswers :
       \E ra \in RsAnswers :
       \E t2 \in SecondReadings(now) :
       \E l \in {list_pods_for_completion(pod_cache, replicaset_cache, ns_memo,
                                          argv, now, t2, ctx, pa, ra)} :
         /\ now' = l.time
         /\ pod_cache' = l.pod_cache
         /\ replicaset_cache' = l.replicaset_cache
         /\ ns_memo' = l.memo
         /\ calls' = calls \o l.calls
         /\ reads' = reads \o l.reads
         /\ namespace' = l.namespace
         /\ pods' = l.pods
         /\ Exit(l.out, l.raised, l.code)
    /\ UNCHANGED <<argv, args, selection, entered, ncalls, nread, listing, output>>

\* main.py:239-240
CompleteNs ==
    /\ pc = "connected"
    /\ ~args.complete_pod
    /\ args.complete_ns
    /\ \E na \in NamespaceAnswers :
       \E l \in {list_namespaces_for_completion(na)} :
         /\ calls' = calls \o l.calls
         /\ Exit(l.out, l.raised, l.code)
    /\ UNCHANGED <<pod_cache, replicaset_cache, now, ns_memo, reads, argv, args,
                   namespace, pods, selection, entered, ncalls, nread, listing, output>>

\* main.py:241-277
CompletionScript ==
    /\ pc = "connected"
    /\ ~args.complete_pod
    /\ ~args.complete_ns
    /\ args.completion = <<"zsh">>
    /\ Exit(<<Line("script", "_kge")>>, "SystemExit", <<0>>)
    /\ UNCHANGED <<pod_cache, replicaset_cache, now, ns_memo, calls, reads, argv,
                   args, namespace, pods, selection, entered, ncalls, nread, listing, output>>

\* main.py:279-281
ResolveNamespace ==
    /\ pc = "connected"
    /\ ~args.complete_pod
    /\ ~args.complete_ns
    /\ args.completion # <<"zsh">>
    /\ IF Truthy(args.namespace)
       THEN /\ namespace' = args.namespace[1]
            /\ UNCHANGED <<ns_memo, calls>>
       ELSE \E ctx \in CtxAnswers :
            \E g \in {get_current_namespace(ns_memo, ctx)} :
              /\ namespace' = g.ret
              /\ ns_memo' = g.memo
              /\ calls' = calls \o g.calls
    /\ out' = out \o <<Line("Using namespace", namespace')>>
    /\ pc' = "resolved"
    /\ UNCHANGED <<pod_cache, replicaset_cache, now, reads, exit_status, argv,
                   args, selection, entered, pods, ncalls, nread, listing, output>>

EventsHeader(title, text) == <<Line(title, text), Line("----", "")>>

\* main.py:287-293 and 299-305: try: print(events); sys.exit(0)
\*                               except Exception: print(...); sys.exit(1)
PrintAndExit(header, e) ==
    IF e.raised = ""
    THEN Exit(header \o e.out \o <<Line("events", e.ret)>>, "SystemExit", <<0>>)
    ELSE IF e.raised = "SystemExit"
    THEN Exit(header \o e.out, e.raised, e.code)
    ELSE Exit(header \o e.out \o <<Line("Error getting events", "")>>,
              "SystemExit", <<1>>)

\* main.py:283-293
DirectPod ==
    /\ pc = "resolved"
    /\ Truthy(args.pod)
    /\ \E ea \in EventAnswers :
       \E e \in {get_events_for_pod(namespace, args.pod[1], args.exceptions_only, ea)} :
         /\ calls' = calls \o e.calls
         /\ PrintAndExit(EventsHeader("Getting events for pod", args.pod[1]), e)
    /\ UNCHANGED <<pod_cache, replicaset_cache, now, ns_memo, reads, argv, args,
                   namespace, pods, selection, entered, ncalls, nread, listing, output>>

\* (as AllEvents, with -a served although a pod was named)
AllEvents_BeforePod ==
    /\ pc = "resolved"
    /\ args.all
    /\ \E ea \in EventAnswers :
       \E e \in {get_all_events(namespace, args.exceptions_only, ea)} :
         /\ calls' = calls \o e.calls
         /\ PrintAndExit(EventsHeader("Getting events for all pods", ""), e)
    /\ UNCHANGED <<pod_cache, replicaset_cache, now, ns_memo, reads, argv, args,
                   namespace, pods, selection, entered, ncalls, nread, listing, output>>

\* main.py:295-305
AllEvents ==
    /\ pc = "resolved"
    /\ ~Truthy(args.pod)
    /\ args.all
    /\ \E ea \in EventAnswers :
       \E e \in {get_all_events(namespace, args.exceptions_only, ea)} :
         /\ calls' = calls \o e.calls
         /\ PrintAndExit(EventsHeader("Getting events for all pods", ""), e)
    /\ UNCHANGED <<pod_cache, replicaset_cache, now, ns_memo, reads, argv, args,
                   namespace, pods, selection, entered, ncalls, nread, listing, output>>

\* display_menu, main.py:164-171
display_menu(menu) ==
    <<Line("Select a pod:", ""), Line("e) Abnormal events for all pods", ""),
      Line("a) All pods, all events", "")>>
    \o [i \in 1..Len(menu) |-> Line("menu", menu[i])]
    \o <<Line("q) Quit", "")>>

\* main.py:307-316
BuildMenu ==
    /\ pc = "resolved"
    /\ ~Truthy(args.pod)
    /\ ~args.all
    /\ \E pa \in PodAnswers :
       \E ra \in RsAnswers :
       \E t2 \in SecondReadings(now) :
       \E f \in {FetchListing(pod_cache, replicaset_cache, namespace, now, t2, pa, ra)} :
         /\ now' = f.time
         /\ pod_cache' = f.pod_cache
         /\ replicaset_cache' = f.replicaset_cache
         /\ calls' = calls \o f.calls
         /\ reads' = reads \o f.reads
         /\ pods' = f.pods
         /\ IF f.raised # ""
            THEN Exit(<<Line("Fetching pods...", "")>> \o f.out, f.raised, f.code)
            ELSE IF f.pods = << >>
            THEN Exit(<<Line("Fetching pods...", "")>> \o f.out
                          \o <<Line("No pods found in namespace", namespace)>>,
                      "SystemExit", <<1>>)
            ELSE /\ out' = out \o <<Line("Fetching pods...", "")>> \o f.out
                                \o display_menu(f.pods)
                 /\ pc' = "prompt"
                 /\ UNCHANGED exit_status
    /\ UNCHANGED <<ns_memo, argv, args, namespace, selection, entered, ncalls, nread, listing, output>>

Prompt == Line("Enter selection: ", "")

\* main.py:175-190: a line is read at the prompt
ReadLine ==
    /\ pc = "prompt"
    /\ nread < MaxInputs
    /\ \E line \in InputLines :
       \E step \in {SelectionStep(line, Len(pods))} :
         /\ selection' = step.sel
         /\ entered' = Entered("line", line)
         /\ IF step.next = "quit"
            THEN Exit(<<Prompt>> \o step.out, "SystemExit", <<0>>)
            ELSE /\ out' = out \o <<Prompt>> \o step.out
                 /\ pc' = IF step.next = "return" THEN "dispatch" ELSE "prompt"
                 /\ UNCHANGED exit_status
    /\ nread' = nread + 1
    /\ UNCHANGED <<pod_cache, replicaset_cache, now, ns_memo, calls, reads, argv,
                   args, namespace, pods, ncalls, listing, output>>

\* main.py:191-193: Ctrl-C at the prompt
Interrupt ==
    /\ pc = "prompt"
    /\ Exit(<<Prompt, Line("Exiting gracefully...", "")>>, "SystemExit", <<0>>)
    /\ entered' = Entered("interrupt", << >>)
    /\ UNCHANGED <<pod_cache, replicaset_cache, now, ns_memo, calls, reads, argv,
                   args, namespace, pods, selection, ncalls, nread, listing, output>>

\* main.py:177: input() meets the end of standard input and raises EOFError,
\* which no handler of get_user_selection or main() catches
EndOfInput ==
    /\ pc = "prompt"
    /\ Exit(<<Prompt>>, "EOFError", << >>)
    /\ entered' = Entered("eof", << >>)
    /\ UNCHANGED <<pod_cache, replicaset_cache, now, ns_memo, calls, reads, argv,
                   args, namespace, pods, selection, ncalls, nread, listing, output>>

\* main.py:322-326, 330-334, 339-343: try: print(events)
\*                                     except Exception: print(...)
\* and main() returns
PrintAndReturn(header, e) ==
    IF e.raised = ""
    THEN Exit(header \o e.out \o <<Line("events", e.ret)>>, "", << >>)
    ELSE IF e.raised = "SystemExit"
    THEN Exit(header \o e.out, e.raised, e.code)
    ELSE Exit(header \o e.out \o <<Line("Error getting events", "")>>, "", << >>)

\* main.py:319-343
Dispatch ==
    /\ pc = "dispatch"
    /\ \E ea \in EventAnswers :
       \E e \in { IF selection[1].kind = "e"
                  THEN get_all_events(namespace, TRUE, ea)
                  ELSE IF selection[1].kind = "a"
                  THEN get_all_events(namespace, args.exceptions_only, ea)
                  ELSE get_events_for_pod(namespace, pods[selection[1].index],
                                          args.exceptions_only, ea) } :
         /\ calls' = calls \o e.calls
         /\ PrintAndReturn(
              IF selection[1].kind = "e"
              THEN EventsHeader("Getting non-normal events for all pods", "")
              ELSE IF selection[1].kind = "a"
              THEN EventsHeader("Getting events for all pods", "")
              ELSE EventsHeader("Getting events for pod", pods[selection[1].index]),
              e)
    /\ UNCHANGED <<pod_cache, replicaset_cache, now, ns_memo, reads, argv, args,
                   namespace, pods, selection, entered, ncalls, nread, listing, output>>

Next ==
    \/ Connect
    \/ CompletePod
    \/ CompleteNs
    \/ CompletionScript
    \/ ResolveNamespace
    \/ DirectPod
    \/ AllEvents
    \/ BuildMenu
    \/ ReadLine
    \/ Interrupt
    \/ EndOfInput
    \/ Dispatch

Spec == Init /\ [][Next]_vars

----------------------------------------------------------------------------
(* Properties of the two TTL caches (SpecCache) *)

SameKey(i, kind, ns) == reads[i].cache = kind /\ reads[i].namespace = ns

\* the reads of a key that obtained a listing from the remote API
Listings(kind, ns) ==
    {i \in 1..Len(reads) : SameKey(i, kind, ns) /\ reads[i].listed # << >>}

Latest(S) == CHOOSE i \in S : \A j \in S : j <= i

\* the names the most recent successful remote listing of the key yielded
LastListed(kind, ns) == reads[Latest(Listings(kind, ns))].listed[1]

Stale(r) == r.age # << >> /\ r.age[1] >= CACHE_DURATION

\* C1: the value the pod cache holds for a namespace is exactly the pod-name
\* list the most recent successful remote pod listing of that namespace
\* returned; cache hits and callers extending the returned list do not
\* change it.
C1_CacheHoldsLastListing ==
    \A ns \in DOMAIN pod_cache :
        /\ Listings("pod", ns) # {}
        /\ pod_cache[ns].value = LastListed("pod", ns)

\* C2 as stated: of two reads of a key less than CACHE_DURATION apart at most
\* one issues a remote list call, and a read made CACHE_DURATION or more
\* after the stored fetch instant issues exactly one call and returns the
\* value that call listed.
C2_OneCallPerWindow ==
    /\ \A i, j \in 1..Len(reads) :
         ( /\ i < j
           /\ SameKey(j, reads[i].cache, reads[i].namespace)
           /\ reads[j].time - reads[i].time < CACHE_DURATION )
         => reads[i].issued + reads[j].issued <= 1
    /\ \A j \in 1..Len(reads) :
         Stale(reads[j]) =>
            /\ reads[j].issued = 1
            /\ reads[j].listed # << >>
            /\ reads[j].ret = reads[j].listed[1]

\* C2 as amended: of two reads of a key less than CACHE_DURATION apart, the
\* first of which returned a listing (from the cache or from a successful
\* call), at most one issues a remote list call; a read made CACHE_DURATION
\* or more after the stored fetch instant issues exactly one call (none only
\* when the API client cannot be constructed) and, when the call succeeds,
\* returns the value that call listed.
C2_OneCallPerWindowAfterListing ==
    /\ \A i, j \in 1..Len(reads) :
         ( /\ i < j
           /\ SameKey(j, reads[i].cache, reads[i].namespace)
           /\ reads[j].time - reads[i].time < CACHE_DURATION
           /\ reads[i].answer \in {"hit", "ok"} )
         => reads[i].issued + reads[j].issued <= 1
    /\ \A j \in 1..Len(reads) :
         Stale(reads[j]) =>
            /\ reads[j].issued = (IF reads[j].answer = "config" THEN 0 ELSE 1)
            /\ reads[j].answer # "hit"
            /\ reads[j].answer = "ok" =>
                  /\ reads[j].listed # << >>
                  /\ reads[j].ret = reads[j].listed[1]

\* a stale entry was refreshed by a successful call that listed a value
\* different from the one an earlier read of the key returned
C2_Witness ==
    \E i, j \in 1..Len(reads) :
        /\ i < j
        /\ SameKey(j, reads[i].cache, reads[i].namespace)
        /\ reads[i].answer = "ok"
        /\ Stale(reads[j])
        /\ reads[j].answer = "ok"
        /\ reads[j].ret # reads[i].ret

\* C3: a call of list_pods_for_completion that prints its line prints the
\* pod listing of the namespace followed by the failed replica sets
\* get_failed_replicasets returned, each name as often as in its source.
C3_CompletionPrintsListing ==
    (out # << >> /\ out[Len(out)].msg = "line") =>
        out[Len(out)].text =
            Join(LastListed("pod", namespace) \o reads[Len(reads)].ret, " ")

----------------------------------------------------------------------------
(* Properties of one run of the program (Spec) *)

IsEventCall(c) == c.api = "list_namespaced_event"
EventCalls == SelectSeq(calls, IsEventCall)

\* main() reaches the menu: no completion flag, no positional pod, no -a
Interactive ==
    /\ ~args.complete_pod
    /\ ~args.complete_ns
    /\ args.completion # <<"zsh">>
    /\ ~Truthy(args.pod)
    /\ ~args.all

\* the lines the prompt accepts for a menu of n entries
Acceptable(line, n) ==
    \/ Lower(line) = <<"q">>
    \/ line = <<"a">>
    \/ line = <<"e">>
    \/ IntOf(line) # << >> /\ IntOf(line)[1] \in 1..n

RejectionMessages ==
    { Line("Please enter a valid number, a, e or q to quit", ""),
      Line("Invalid selection. Please enter a number between 1 and max or q to quit", "") }

\* C4: once an index i has been selected, the menu is the pods listed for the
\* resolved namespace followed by its failed replica sets, i is within the
\* menu, and the run ends after exactly one list-events call, for entry i of
\* the menu only, restricted to type!=Normal exactly under --exceptions-only.
\* (Fails when get_k8s_client() of get_events_for_pod, main.py:73, cannot
\* load the kube config: the run ends with no list-events call.)
C4_IndexQueriesSelectedEntry ==
    (selection # << >> /\ selection[1].kind = "index") =>
        /\ Len(reads) = 2
        /\ reads[1].cache = "pod" /\ reads[1].namespace = namespace
        /\ reads[2].cache = "rs" /\ reads[2].namespace = namespace
        /\ reads[1].listed # << >>
        /\ pods = reads[1].listed[1] \o reads[2].ret
        /\ selection[1].index \in 1..Len(pods)
        /\ pc \in {"dispatch", "exited"}
        /\ pc = "dispatch" => EventCalls = << >>
        /\ pc = "exited" =>
             /\ Len(EventCalls) = 1
             /\ EventCalls[1].namespace = namespace
             /\ EventCalls[1].field_selector =
                  << ("involvedObject.name=" \o pods[selection[1].index])
                       \o (IF args.exceptions_only THEN ",type!=Normal" ELSE "") >>

\* C5: a line that is not q/Q, a, e or an integer of the menu is rejected: a
\* message is printed, the prompt comes again, no call is issued and the
\* menu, the selection and the caches stay as they are.
C5_BadInputRejected ==
    [][ ( /\ pc = "prompt"
          /\ nread' = nread + 1
          /\ entered'.kind = "line"
          /\ ~Acceptable(entered'.line, Len(pods)) )
        => ( /\ pc' = "prompt"
             /\ \E m \in RejectionMessages : out' = out \o <<Prompt, m>>
             /\ calls' = calls
             /\ pods' = pods
             /\ selection' = selection
             /\ exit_status' = exit_status
             /\ pod_cache' = pod_cache
             /\ replicaset_cache' = replicaset_cache ) ]_vars

\* the line one past the end of the menu was entered and the prompt is back
C5_Witness ==
    /\ pc = "prompt"
    /\ entered.kind = "line"
    /\ IntOf(entered.line) = <<Len(pods) + 1>>
    /\ selection = << >>

\* C6: q in either case, or Ctrl-C, at the prompt ends the run with status 0
\* and without any list-events call.
C6_QuitIssuesNoQuery ==
    ( \/ entered.kind = "interrupt"
      \/ entered.kind = "line" /\ Lower(entered.line) = <<"q">> )
    => ( /\ pc = "exited"
         /\ exit_status = <<0>>
         /\ EventCalls = << >> )

\* Q was entered after a rejected line
C6_Witness ==
    /\ entered = Entered("line", <<"Q">>)
    /\ nread >= 2
    /\ pc = "exited"

\* C7: the selection loop is left only by q, by a valid selection or by
\* Ctrl-C.
C7_LoopLeftOnlyByChoice ==
    (entered.kind # "none" /\ pc # "prompt") =>
        \/ entered.kind = "interrupt"
        \/ entered.kind = "line" /\ Acceptable(entered.line, Len(pods))

\* C8: selecting e lists the events of the whole namespace restricted to
\* type!=Normal whatever the flag, selecting a lists them restricted exactly
\* under --exceptions-only; one call, never one for a single pod.
\* (Fails when get_k8s_client() of get_all_events, main.py:89, cannot load
\* the kube config: the run ends with no list-events call.)
C8_NamespaceWideDispatch ==
    (pc = "exited" /\ selection # << >> /\ selection[1].kind \in {"a", "e"}) =>
        /\ Len(EventCalls) = 1
        /\ EventCalls[1].namespace = namespace
        /\ EventCalls[1].field_selector =
             IF selection[1].kind = "e" \/ args.exceptions_only
             THEN <<"type!=Normal">> ELSE << >>

\* C9: a run in which a list-events call failed ends with status 1.
C9_FailedQueryExitsOne ==
    (pc = "exited" /\ \E i \in 1..Len(EventCalls) : EventCalls[i].ended # "ok")
        => exit_status = <<1>>

\* C10: an interactive run that finds neither pods nor failed replica sets
\* does not end with a failure status.
C10_EmptyMenuIsNotFailure ==
    ( /\ pc = "exited"
      /\ Interactive
      /\ Len(reads) = 2
      /\ reads[1].answer = "ok" /\ reads[1].ret = << >>
      /\ reads[2].answer = "ok" /\ reads[2].ret = << >> )
    => exit_status # <<1>>

\* C11: a run for a pod named on the command line whose list-events call
\* succeeds and lists no event ends with status 1.
C11_EmptyDirectExitsOne ==
    ( /\ pc = "exited"
      /\ Truthy(args.pod)
      /\ Len(EventCalls) = 1
      /\ EventCalls[1].ended = "ok"
      /\ out[Len(out)] = Line("events", "No events found") )
    => exit_status = <<1>>

\* the remote list operations
ListApis ==
    {"list_namespaced_pod", "list_namespaced_replica_set",
     "list_namespaced_event", "list_namespace"}
IsListCall(c) == c.api \in ListApis
ListCalls == SelectSeq(calls, IsListCall)

\* the construction of an API client failed and was reported
ClientFailed ==
    \E i \in 1..Len(out) :
        out[i].msg \in {"Error initializing Kubernetes client",
                        "Error initializing Kubernetes Apps client"}

\* C12: when the Kubernetes client cannot be initialised the run reports it
\* and ends with status 1 without having issued any list-pods,
\* list-replica-sets, list-events or list-namespaces call.
\* (Fails when a client built after the check of main.py:229-234 cannot be
\* initialised: get_k8s_apps_client at main.py:129 comes after the pods were
\* listed, get_k8s_client at main.py:73 and 89 after the menu was built.)
C12_InitFailureBeforeAnyQuery ==
    ClientFailed =>
        /\ pc = "exited"
        /\ exit_status = <<1>>
        /\ ListCalls = << >>

----------------------------------------------------------------------------
(* Failed listings and the caches (SpecCache) *)

IsPodCall(c) == c.api = "list_namespaced_pod"
IsRsCall(c) == c.api = "list_namespaced_replica_set"

\* the entry of a key is the same before and after: none, or the same value
\* and fetch instant
EntryKept(old, new, ns) ==
    /\ (ns \in DOMAIN new) = (ns \in DOMAIN old)
    /\ ns \in DOMAIN old => new[ns] = old[ns]

\* C13: a read whose remote listing call fails leaves the entry of its key
\* as it was (value and fetch instant, or no entry) and issues the call once.
C13_FailedFetchKeepsEntry ==
    [][ \A i \in (Len(reads) + 1)..Len(reads') :
          reads'[i].answer \in {"api", "other"} =>
            IF reads'[i].cache = "pod"
            THEN /\ EntryKept(pod_cache, pod_cache', reads'[i].namespace)
                 /\ Len(SelectSeq(calls', IsPodCall)) = 1
            ELSE /\ EntryKept(replicaset_cache, replicaset_cache', reads'[i].namespace)
                 /\ Len(SelectSeq(calls', IsRsCall)) = 1 ]_vars

\* the refresh of an expired replica-set entry failed and the expired entry
\* is still in the cache
C13_Witness ==
    /\ reads # << >>
    /\ reads[Len(reads)].cache = "rs"
    /\ reads[Len(reads)].answer = "api"
    /\ Stale(reads[Len(reads)])
    /\ reads[Len(reads)].namespace \in DOMAIN replicaset_cache
    /\ replicaset_cache[reads[Len(reads)].namespace].time
         = reads[Len(reads)].time - reads[Len(reads)].age[1]
    /\ replicaset_cache[reads[Len(reads)].namespace].value # << >>

----------------------------------------------------------------------------
(* Remote calls of one run (Spec) *)

CallsOf(api) == {i \in 1..Len(calls) : calls[i].api = api}

\* C14: in one run of main() each remote list operation is issued at most
\* once, whether it succeeds or fails.
C14_EachListCallAtMostOnce ==
    \A api \in ListApis : Cardinality(CallsOf(api)) <= 1

\* a run listed the pods, met a failed replica-set listing and went on to
\* one failed list-events call
C14_Witness ==
    /\ pc = "exited"
    /\ Len(ListCalls) = 3
    /\ ListCalls[2].api = "list_namespaced_replica_set"
    /\ ListCalls[2].ended = "api"
    /\ ListCalls[3].api = "list_namespaced_event"
    /\ ListCalls[3].ended = "other"

----------------------------------------------------------------------------
(* The namespace of the queries (Spec) *)

\* C15: when -n/--namespace gave a namespace, every remote list call of the
\* run that names a namespace names that one.
C15_ExplicitNamespaceUsed ==
    args.namespace # << >> =>
        \A i \in 1..Len(ListCalls) :
            ListCalls[i].api # "list_namespace" =>
                ListCalls[i].namespace = args.namespace[1]

----------------------------------------------------------------------------
(* The ambient namespace (SpecNamespace) *)

\* C16: a call of get_current_namespace that looks the kube-context up
\* returns its namespace when that is a non-empty string and "default" when
\* the field is absent, None or empty or the lookup raises; it returns
\* normally and never returns the empty string.
C16_AmbientNamespaceOrDefault ==
    \A i \in 1..Len(reads) :
        (reads[i].cache = "namespace" /\ reads[i].issued = 1) =>
            /\ reads[i].ok
            /\ reads[i].ret # ""
            /\ reads[i].ret =
                 IF reads[i].answer \in {"error", "missing", "none", ""}
                 THEN "default" ELSE reads[i].answer

\* the first call met a context whose namespace is the empty string
C16_Witness ==
    /\ Len(reads) >= 1
    /\ reads[1].cache = "namespace"
    /\ reads[1].answer = ""
    /\ reads[1].issued = 1
    /\ namespace = "default"

\* C17: every call of get_current_namespace after the first returns the
\* string the first call returned and looks nothing up, whatever the
\* kube-context holds by then.
C17_NamespaceMemoised ==
    \A i \in 2..Len(reads) :
        (reads[1].cache = "namespace" /\ reads[i].cache = "namespace") =>
            /\ reads[i].ret = reads[1].ret
            /\ reads[i].issued = 0

\* the first lookup raised and gave "default"; a later call, made when the
\* context names prod, still returns "default"
C17_Witness ==
    /\ Len(reads) >= 2
    /\ reads[1].cache = "namespace" /\ reads[2].cache = "namespace"
    /\ reads[1].answer = "error"
    /\ reads[2].answer = "prod"
    /\ reads[2].time > reads[1].time
    /\ reads[2].ret = "default"

----------------------------------------------------------------------------
(* The field selector of the list-events call (Spec) *)

\* the query of the run is for one object: a pod named on the command line
\* or an entry chosen from the menu
PodScoped ==
    \/ Truthy(args.pod)
    \/ selection # << >> /\ selection[1].kind = "index"
QueriedPod ==
    IF Truthy(args.pod) THEN args.pod[1] ELSE pods[selection[1].index]

\* non_normal as the run passes it: --exceptions-only, or the choice e
NonNormal ==
    \/ args.exceptions_only
    \/ selection # << >> /\ selection[1].kind = "e"

SelectorPredicates ==
    (IF PodScoped THEN <<"involvedObject.name=" \o QueriedPod>> ELSE << >>)
    \o (IF NonNormal THEN <<"type!=Normal">> ELSE << >>)

\* C18: the field selector of a list-events call is the comma-joined list of
\* involvedObject.name=<pod> (exactly for a pod-scoped query) and
\* type!=Normal (exactly when non_normal is true); with neither, no field
\* selector is sent.
C18_FieldSelectorConjunction ==
    \A i \in 1..Len(EventCalls) :
        EventCalls[i].field_selector =
            IF SelectorPredicates = << >> THEN << >>
            ELSE <<Join(SelectorPredicates, ",")>>

\* kge a -e sent both predicates
C18_Witness ==
    /\ pc = "exited"
    /\ Truthy(args.pod)
    /\ args.exceptions_only
    /\ Len(EventCalls) = 1
    /\ EventCalls[1].field_selector = <<"involvedObject.name=a,type!=Normal">>

----------------------------------------------------------------------------
(* The namespace of the pod completion (Spec) *)

\* positions of the command line where -n or --namespace is followed by
\* another argument
Overrides == {i \in 1..(Len(argv) - 1) : argv[i] \in {"-n", "--namespace"}}
FirstOverride == CHOOSE i \in Overrides : \A j \in Overrides : i <= j

\* C19: the list-pods and list-replica-sets calls of --complete-pod name the
\* argument that follows the first -n / --namespace of the raw command line
\* when there is one, and the namespace get_current_namespace resolved
\* otherwise; both name the same namespace.
C19_CompletionNamespace ==
    (args.complete_pod /\ pc = "exited") =>
        \A i \in 1..Len(ListCalls) :
            /\ ListCalls[i].api \in {"list_namespaced_pod", "list_namespaced_replica_set"}
            /\ IF Overrides # {}
               THEN /\ ListCalls[i].namespace = argv[FirstOverride + 1]
                    /\ CallsOf("list_kube_config_contexts") = {}
               ELSE /\ ns_memo # << >>
                    /\ ListCalls[i].namespace = ns_memo[1]
                    /\ Cardinality(CallsOf("list_kube_config_contexts")) = 1

\* --complete-pod --namespace prod -n default listed the pods and the
\* replica sets of prod
C19_Witness ==
    /\ pc = "exited"
    /\ argv = <<"--complete-pod", "--namespace", "prod", "-n", "default">>
    /\ Len(ListCalls) = 2
    /\ ListCalls[1].namespace = "prod"
    /\ ListCalls[2].namespace = "prod"
    /\ ListCalls[2].api = "list_namespaced_replica_set"

----------------------------------------------------------------------------
(* The completion entry points (Spec) *)

PrintedListing == out # << >> /\ out[Len(out)].msg = "line"

\* C20: --complete-pod, once its two listings are there, and --complete-ns,
\* once its list-namespaces call was made (whether the call succeeded or
\* failed), print the line of names and end with status 0.
C20_CompletionExitsZero ==
    /\ ( /\ pc = "exited"
         /\ args.complete_pod
         /\ Len(ListCalls) = 2
         /\ ListCalls[1].ended = "ok"
         /\ ListCalls[2].ended = "ok" )
       => (PrintedListing /\ exit_status = <<0>>)
    /\ ( /\ pc = "exited"
         /\ ~args.complete_pod
         /\ args.complete_ns
         /\ CallsOf("list_namespace") # {} )
       => (PrintedListing /\ exit_status = <<0>>)

\* C21: a run with --complete-pod or --complete-ns that reached its listing
\* calls writes one line, the line of names, and nothing else, reads no
\* input and issues no list-events call, however the listing calls ended.
C21_CompletionWritesOneLine ==
    ( /\ pc = "exited"
      /\ args.complete_pod \/ args.complete_ns
      /\ ListCalls # << >> )
    => ( /\ Len(out) = 1
         /\ out[1].msg = "line"
         /\ EventCalls = << >>
         /\ entered.kind = "none"
         /\ nread = 0 )

----------------------------------------------------------------------------
(* The formatted events (SpecFormat) *)

\* C22: formatting an empty listing gives one line, the no-events-found
\* text; formatting n >= 1 events gives n entries, the i-th for the i-th
\* event, joined by newlines.
C22_OneEntryPerEvent ==
    ncalls = 1 =>
        IF listing = << >>
        THEN /\ output.lines = <<"No events found">>
             /\ output.ret = "No events found"
        ELSE /\ Len(output.lines) = Len(listing)
             /\ \A i \in 1..Len(listing) : output.lines[i] = FormatEvent(listing[i])
             /\ output.ret = Join(output.lines, "\n")

\* three events, two of them equal, were formatted
C22_Witness ==
    /\ ncalls = 1
    /\ Len(listing) = 3
    /\ listing[1] = listing[3]
    /\ listing[2].type = "Normal"
    /\ Len(output.lines) = 3

\* last_timestamp as an instant: << >> for None
EventTime(e) ==
    IF e.last_timestamp = "None" THEN << >> ELSE <<DigitValue(e.last_timestamp)>>

\* e may stand before f in ascending order of time, None last
NotAfter(e, f) ==
    \/ EventTime(f) = << >>
    \/ EventTime(e) # << >> /\ EventTime(e)[1] <= EventTime(f)[1]

Ascending(g) == \A i, j \in 1..Len(g) : i < j => NotAfter(g[i], g[j])

\* the orders of the events of a listing
Reorderings(g) ==
    { [i \in 1..Len(g) |-> g[p[i]]] :
        p \in { q \in [1..Len(g) -> 1..Len(g)] :
                  \A a, b \in 1..Len(g) : q[a] = q[b] => a = b } }

\* C23: the entries format_events returns are those of the events in
\* ascending order of last_timestamp, the events without one last, whatever
\* the order of the listing.
C23_EventsPrintedInTimeOrder ==
    (ncalls = 1 /\ listing # << >>) =>
        \E g \in Reorderings(listing) :
            /\ Ascending(g)
            /\ output.lines = FormatEventLines(g)

----------------------------------------------------------------------------
(* The table of events (SpecTable) *)

\* the table was built with relative times
RelativeTable == ncalls = 1 /\ ~output.show_timestamps

\* seconds between the last_timestamp of the event of row i and now
Elapsed(i) == now - output.sorted_events[i].last_timestamp[1]

UnitSize(u) ==
    IF u = "d" THEN 86400 ELSE IF u = "h" THEN 3600 ELSE IF u = "m" THEN 60 ELSE 1

\* C24: for an elapsed time of s >= 0 seconds the Time cell shows
\* floor(s/86400) days when s >= 86400, else floor(s/3600) hours when
\* s >= 3600, else floor(s/60) minutes when s >= 60, else s seconds.
C24_RelativeTimeBuckets ==
    RelativeTable =>
        \A i \in 1..Len(output.rows) :
            ( /\ output.sorted_events[i].last_timestamp # << >>
              /\ Elapsed(i) >= 0 ) =>
                output.rows[i].timestamp =
                    IF Elapsed(i) >= 86400
                    THEN ToString(Elapsed(i) \div 86400) \o "d ago"
                    ELSE IF Elapsed(i) >= 3600
                    THEN ToString(Elapsed(i) \div 3600) \o "h ago"
                    ELSE IF Elapsed(i) >= 60
                    THEN ToString(Elapsed(i) \div 60) \o "m ago"
                    ELSE ToString(Elapsed(i)) \o "s ago"

\* an event seen 3600 seconds ago is shown as "1h ago"
C24_Witness ==
    /\ RelativeTable
    /\ listing = <<KubernetesEvent(<<0 - 3600>>, "a", "Normal")>>
    /\ output.rows[1].timestamp = "1h ago"

\* the events of rows i and j are in sorted order: a timestamp before None,
\* the earlier instant first
InOrder(e, f) ==
    \/ e.last_timestamp # << >> /\ f.last_timestamp = << >>
    \/ /\ e.last_timestamp # << >>
       /\ f.last_timestamp # << >>
       /\ e.last_timestamp[1] < f.last_timestamp[1]

SameInstant(e, f) ==
    \/ e.last_timestamp = << >> /\ f.last_timestamp = << >>
    \/ /\ e.last_timestamp # << >>
       /\ f.last_timestamp # << >>
       /\ e.last_timestamp[1] = f.last_timestamp[1]

\* C25: the rows are the input events, each once, the events with a
\* timestamp in non-decreasing order before the events without one, and
\* events of equal timestamp (or without one) in their input order.
C25_StableAscendingSort ==
    ncalls = 1 =>
        /\ Len(output.rows) = Len(listing)
        /\ \A i \in 1..Len(output.rows) :
               /\ output.rows[i].resource = output.sorted_events[i].involved_object_name
               /\ output.rows[i].type = output.sorted_events[i].type
        /\ \E p \in [1..Len(listing) -> 1..Len(listing)] :
               /\ \A a, b \in 1..Len(listing) : p[a] = p[b] => a = b
               /\ \A i \in 1..Len(listing) : output.sorted_events[i] = listing[p[i]]
               /\ \A i, j \in 1..Len(listing) :
                      i < j =>
                          \/ InOrder(listing[p[i]], listing[p[j]])
                          \/ SameInstant(listing[p[i]], listing[p[j]]) /\ p[i] < p[j]

\* an event without a timestamp came first and two events of one instant
\* followed: the two lead the table in their input order
C25_Witness ==
    /\ ncalls = 1
    /\ listing = << KubernetesEvent(<< >>, "a", "Warning"),
                    KubernetesEvent(<<0 - 60>>, "b", "Warning"),
                    KubernetesEvent(<<0 - 60>>, "a", "Warning") >>
    /\ output.rows[1].resource = "b"
    /\ output.rows[2].resource = "a"
    /\ output.rows[3].timestamp = "unknown time"

\* the distance in seconds between the timestamp of row i and now
Distance(i) == IF Elapsed(i) >= 0 THEN Elapsed(i) ELSE 0 - Elapsed(i)

\* C30: the amount q and the unit size u of a relative Time cell satisfy
\* q*u <= |elapsed| < (q+1)*u, also for a timestamp after now.
C30_LabelWithinDistance ==
    RelativeTable =>
        \A i \in 1..Len(output.rows) :
            output.sorted_events[i].last_timestamp # << >> =>
                /\ output.rows[i].amount * UnitSize(output.rows[i].unit) <= Distance(i)
                /\ Distance(i) < (output.rows[i].amount + 1) * UnitSize(output.rows[i].unit)

----------------------------------------------------------------------------
(* Failed listings while the menu or the completion list is built (Spec) *)

Printed(msg) == \E i \in 1..Len(out) : out[i].msg = msg

FailedCall(api) == \E i \in CallsOf(api) : calls[i].ended # "ok"

\* C26: a failed replica-set listing is logged and taken as an empty list:
\* the run goes on with the pods alone and the replica-set cache stays as
\* it was; a failed pod listing ends the run with status 1 before the
\* replica sets are asked for and before a menu or completion line is
\* printed.
C26_ReplicaSetFailureNotFatal ==
    /\ FailedCall("list_namespaced_replica_set") =>
          /\ Printed("Error fetching ReplicaSets")
          /\ replicaset_cache = EmptyCache
          /\ reads[1].listed # << >>
          /\ pods = reads[1].listed[1]
          /\ IF args.complete_pod
             THEN PrintedListing /\ exit_status = <<0>>
             ELSE pods # << >> => Printed("Select a pod:")
    /\ FailedCall("list_namespaced_pod") =>
          /\ pc = "exited"
          /\ exit_status = <<1>>
          /\ CallsOf("list_namespaced_replica_set") = {}
          /\ ~Printed("line")
          /\ ~Printed("Select a pod:")

\* C27: the namespace list_pods_for_completion takes from the raw command
\* line is the one main() resolves from the parsed arguments: the value of
\* -n/--namespace when it is given (and not empty), the ambient namespace
\* otherwise.
C27_CompletionNamespaceAsMain ==
    (args.complete_pod /\ pc = "exited" /\ ListCalls # << >>) =>
        IF Truthy(args.namespace)
        THEN namespace = args.namespace[1]
        ELSE ns_memo # << >> /\ namespace = ns_memo[1]

----------------------------------------------------------------------------
(* The branch a run takes (Spec) *)

NoCompletion ==
    /\ ~args.complete_pod
    /\ ~args.complete_ns
    /\ args.completion # <<"zsh">>

\* the menu was built or the prompt was shown
MenuOrInput ==
    \/ Printed("Fetching pods...")
    \/ Printed("Select a pod:")
    \/ Printed("Enter selection: ")
    \/ entered.kind # "none"
    \/ nread > 0

\* C28: a run takes one branch, in the order --complete-pod, --complete-ns,
\* --completion, pod, -a, menu: it issues at most one list-events call, a
\* pod given with -a is served by the query for that pod only, and the menu
\* is built and input is read only without completion flag, pod and -a.
C28_OneBranchPerRun ==
    /\ Len(EventCalls) <= 1
    /\ args.complete_pod =>
          /\ EventCalls = << >>
          /\ CallsOf("list_namespace") = {}
    /\ (~args.complete_pod /\ args.complete_ns) =>
          \A i \in 1..Len(ListCalls) : ListCalls[i].api = "list_namespace"
    /\ (~args.complete_pod /\ ~args.complete_ns /\ args.completion = <<"zsh">>) =>
          calls = << >>
    /\ (NoCompletion /\ Truthy(args.pod)) =>
          \A i \in 1..Len(ListCalls) :
              /\ ListCalls[i].api = "list_namespaced_event"
              /\ ListCalls[i].field_selector \in
                    { <<"involvedObject.name=" \o args.pod[1]>>,
                      <<("involvedObject.name=" \o args.pod[1]) \o ",type!=Normal">> }
    /\ (NoCompletion /\ ~Truthy(args.pod) /\ args.all) =>
          \A i \in 1..Len(ListCalls) :
              /\ ListCalls[i].api = "list_namespaced_event"
              /\ ListCalls[i].field_selector \in {<< >>, <<"type!=Normal">>}
    /\ MenuOrInput => Interactive

\* kge b -a listed the events of pod b
C28_Witness ==
    /\ pc = "exited"
    /\ args.pod = <<"b">>
    /\ args.all
    /\ Len(calls) >= 1
    /\ Len(EventCalls) = 1
    /\ EventCalls[1].field_selector = <<"involvedObject.name=b">>
    /\ exit_status = <<0>>

----------------------------------------------------------------------------
(* The failed replica sets (SpecReplicaSets) *)

\* the replica set has a status with at least one condition of type
\* ReplicaFailure
Failed(rs) ==
    /\ rs.st = "conds"
    /\ \E i \in DOMAIN rs.conds : rs.conds[i] = "ReplicaFailure"

\* C29: a fresh get_failed_replicasets returns, in API order, the names of
\* exactly the replica sets that have a condition of type ReplicaFailure,
\* each once, and stores that list.
C29_FailedReplicaSetsListed ==
    ncalls = 1 =>
        /\ Len(output) = Len(SelectSeq(listing, Failed))
        /\ \A i \in 1..Len(output) : output[i] = SelectSeq(listing, Failed)[i].name
        /\ reads[1].answer = "ok"
        /\ replicaset_cache[namespace].value = output

\* of a replica set with two ReplicaFailure conditions and one without a
\* status, the first is listed, once
C29_Witness ==
    /\ ncalls = 1
    /\ listing = << ReplicaSet("a", "conds", <<"ReplicaFailure", "ReplicaFailure">>),
                    ReplicaSet("b", "nostatus", << >>) >>
    /\ output = <<"a">>

====
